---------------------------- MODULE Spec2Model ----------------------------
(***************************************************************************)
(* Pattern classification and cross-group aggregation of the alltoallv     *)
(* profiler tools: package patterns (CompareCallPatterns, Data.addPattern, *)
(* ParseFiles, Same), the srcountsanalyzer pattern store                   *)
(* (GlobalPatterns.addPattern), the profile tool's per-rank loop           *)
(* (analyzeCountFiles) and profiler.AnalyzeSubCommsResults.                *)
(*                                                                         *)
(* A signature (Go map[int]int) is a function from a finite set of peer    *)
(* counts to numbers of ranks.  A *CallData is an index into heap, so that *)
(* two slices holding the same pointer see the same Count and Calls.       *)
(***************************************************************************)
EXTENDS Integers, Sequences, FiniteSets, TLC

VARIABLES
    tool,            \* which main() runs: "profile" or "srcountsanalyzer"
    pc,              \* position of the running tool
    todo,            \* analyzeCountFiles: the part of sendRanks still to visit
    rank,            \* analyzeCountFiles: the rank being analysed
    numCalls,        \* ParseFiles / srcountsanalyzer: number of calls of the count file
    i,               \* ParseFiles / srcountsanalyzer: loop index
    patterns,        \* ParseFiles: var patterns Data
    callsCountsData, \* ParseFiles: callsCountsData.TotalNumCalls
    globalPatterns,  \* srcountsanalyzer: var globalPatterns GlobalPatterns (its cp slice)
    heap,            \* the CallData / callPattern objects allocated with new()
    fed,             \* history: the (send, recv) pairs passed to addPattern in this pass
    cmp,             \* history: the CompareCallPatterns calls of the last addPattern
    allStats,        \* analyzeCountFiles: allStats, rank -> TotalNumCalls
    allPatterns,     \* analyzeCountFiles: allPatterns, rank -> Data
    visit,           \* AnalyzeSubCommsResults: order in which range allPatterns visited the groups
    fd,              \* AnalyzeSubCommsResults: "unopened", "open" or "closed"
    report,          \* content of the consolidated report file; NoFile when it does not exist
    ret,             \* AnalyzeSubCommsResults: "running", "nil", "error" or "panic"
    patternsFile,    \* lines of the patterns file of rank; NoFile when it does not exist
    summaryFile,     \* lines of the patterns summary file of rank; NoFile when it does not exist
    getCall,          \* the last patterns.GetCall: its callNum and what it returned
    outputFiles,     \* analyzeJobRankCounts: outputFilesInfo, the files of the rank and its Cleanup
    callData,        \* the last profiler.GetCallData: the step that failed and what it returned
    handlers,        \* webui: the goroutines net/http runs the handlers in, their position and locals
    cache,           \* webui: the global variables numCalls, stats, allPatterns, allCallsData
    loadLog          \* history: the calls of HandleCountsFiles, the stores of loaded data, the reads made during a write

vars == <<tool, pc, todo, rank, numCalls, i, patterns, callsCountsData, globalPatterns,
          heap, fed, cmp, allStats, allPatterns, visit, fd, report, ret,
          patternsFile, summaryFile, getCall, outputFiles, callData,
          handlers, cache, loadLog>>

(***************************************************************************)
(* Bounds and input domains.                                               *)
(***************************************************************************)
MaxCalls == 3

MaxGroupCalls == 2

Ranks == {0, 1}

Threshold == 100

EmptyMap == [k \in {} |-> 0]

\* Send signatures fed to a single store: every threshold case of the
\* classifier ((101,1) and (100,1), (4,4) and (4,5), (1,101) and (1,100)),
\* a signature whose two entries satisfy different rules and one whose two
\* entries satisfy the same rule.
StoreSendSigs ==
    { EmptyMap,
      (Threshold + 1) :> 1,
      Threshold :> 1,
      4 :> 4,
      4 :> 5,
      1 :> (Threshold + 1),
      1 :> Threshold,
      ((Threshold + 1) :> 1) @@ (4 :> 4),
      (4 :> 4) @@ (1 :> 1) }

StoreRecvSigs == { EmptyMap, 4 :> 4 }

(***************************************************************************)
(* What counts.ParseFiles / datafilereader.LookupCall hand over for one    *)
(* call: the two signatures and the numbers of non-zero counts.  Every     *)
(* entry (peerCount, numRanks) stands for numRanks ranks that each have    *)
(* peerCount non-zero counts.                                              *)
(***************************************************************************)
RECURSIVE SumNonZero(_, _)
SumNonZero(sig, keys) ==
    IF keys = {} THEN 0
    ELSE LET k == CHOOSE x \in keys : TRUE
         IN  k * sig[k] + SumNonZero(sig, keys \ {k})

CallCounts(send, recv) ==
    [ SendPatterns           |-> send,
      RecvPatterns           |-> recv,
      TotalSendNonZeroCounts |-> SumNonZero(send, DOMAIN send),
      TotalRecvNonZeroCounts |-> SumNonZero(recv, DOMAIN recv) ]

StoreCalls == { CallCounts(s, r) : s \in StoreSendSigs, r \in StoreRecvSigs }

\* The calls of the groups given to the aggregator: a call without data, an
\* N to N call, a call whose two send entries both satisfy the N to N rule,
\* and an N to N call with another receive signature.
GroupCalls ==
    { CallCounts(EmptyMap, EmptyMap),
      CallCounts(4 :> 4, 4 :> 4),
      CallCounts((4 :> 4) @@ (1 :> 1), 4 :> 4),
      CallCounts(4 :> 4, 5 :> 4) }

\* The calls of the groups in ReportSpec, so that every topology view is
\* filled: a call without data, a call that is both N to N and 1 to N, and
\* an N to 1 call.
ReportCalls ==
    { CallCounts(EmptyMap, EmptyMap),
      CallCounts((4 :> 4) @@ (101 :> 1), EmptyMap),
      CallCounts(1 :> 101, EmptyMap) }

\* The calls of the count files in FileSpec: two shapes, so that the call
\* index lists of the two buckets show every mix of runs and single values.
MaxFileCalls == 10

FileCalls ==
    { CallCounts(4 :> 4, 4 :> 4),
      CallCounts((101 :> 1) @@ (4 :> 4), EmptyMap) }

(***************************************************************************)
(* package patterns                                                        *)
(***************************************************************************)
MapLen(p) == Cardinality(DOMAIN p)

\* reflect.DeepEqual on two allocated maps: same length, and every key of
\* the first is a key of the second with an equal value.
DeepEqual(p1, p2) ==
    /\ MapLen(p1) = MapLen(p2)
    /\ \A k \in DOMAIN p1 : k \in DOMAIN p2 /\ p1[k] = p2[k]

CompareLenOnly(p1, p2) == MapLen(p1) = MapLen(p2)

CompareCallPatterns(p1, p2) ==
    IF MapLen(p1) # MapLen(p2) THEN FALSE ELSE DeepEqual(p1, p2)

EmptyData ==
    [ AllPatterns |-> <<>>, OneToN |-> <<>>, NToN |-> <<>>, NToOne |-> <<>>,
      Empty |-> <<>> ]

\* The scan of addPattern: the index of the first element of list whose
\* Send and Recv both compare equal to the arguments, 0 when there is none.
FirstMatchArgMixup(list, h, sendPatterns, recvPatterns) ==
    LET hits == { idx \in 1..Len(list) :
                    /\ CompareCallPatterns(h[list[idx]].Send, sendPatterns)
                    /\ CompareCallPatterns(h[list[idx]].Recv, sendPatterns) }
    IN  IF hits = {} THEN 0 ELSE CHOOSE idx \in hits : \A j \in hits : idx <= j

FirstMatch(list, h, sendPatterns, recvPatterns) ==
    LET hits == { idx \in 1..Len(list) :
                    /\ CompareCallPatterns(h[list[idx]].Send, sendPatterns)
                    /\ CompareCallPatterns(h[list[idx]].Recv, recvPatterns) }
    IN  IF hits = {} THEN 0 ELSE CHOOSE idx \in hits : \A j \in hits : idx <= j

\* The three tests of the classification loop for one entry of the send
\* signature; each test ends the iteration with continue.
TopologyGe(sendTo, n) ==
    IF sendTo >= n * Threshold THEN "OneToN"
    ELSE IF sendTo = n THEN "NToN"
    ELSE IF sendTo * Threshold < n THEN "NToOne"
    ELSE "none"

TopologyNToNGe(sendTo, n) ==
    IF sendTo > n * Threshold THEN "OneToN"
    ELSE IF sendTo >= n THEN "NToN"
    ELSE IF sendTo * Threshold < n THEN "NToOne"
    ELSE "none"

TopologyLe(sendTo, n) ==
    IF sendTo > n * Threshold THEN "OneToN"
    ELSE IF sendTo = n THEN "NToN"
    ELSE IF sendTo * Threshold <= n THEN "NToOne"
    ELSE "none"

Topology(sendTo, n) ==
    IF sendTo > n * Threshold THEN "OneToN"
    ELSE IF sendTo = n THEN "NToN"
    ELSE IF sendTo * Threshold < n THEN "NToOne"
    ELSE "none"

\* for sendTo, n := range sendPatterns { ... }: the entries are visited in
\* an order the Go runtime picks; every append adds the same pointer new_cp,
\* so the three slices do not depend on that order.
RECURSIVE Classify(_, _, _, _)
Classify(d, new_cp, sendPatterns, keys) ==
    IF keys = {} THEN d
    ELSE LET sendTo == CHOOSE k \in keys : TRUE
             t == Topology(sendTo, sendPatterns[sendTo])
             d1 == IF t = "none" THEN d ELSE [d EXCEPT ![t] = Append(@, new_cp)]
         IN  Classify(d1, new_cp, sendPatterns, keys \ {sendTo})

\* func (d *Data) addPattern: the new Data and the new heap.
addPatternNoCallAppend(d, h, callNum, sendPatterns, recvPatterns) ==
    LET idx == FirstMatch(d.AllPatterns, h, sendPatterns, recvPatterns)
    IN  IF idx # 0
        THEN [ d |-> d,
               h |-> [h EXCEPT ![d.AllPatterns[idx]] = [@ EXCEPT !.Count = @ + 1]] ]
        ELSE LET new_cp == Len(h) + 1
                 cd == [ Send |-> sendPatterns, Recv |-> recvPatterns,
                         Count |-> 1, Calls |-> <<callNum>> ]
                 d1 == [d EXCEPT !.AllPatterns = Append(@, new_cp)]
             IN  [ d |-> Classify(d1, new_cp, sendPatterns, DOMAIN sendPatterns),
                   h |-> Append(h, cd) ]

addPatternCountOnCreateOnly(d, h, callNum, sendPatterns, recvPatterns) ==
    LET idx == FirstMatch(d.AllPatterns, h, sendPatterns, recvPatterns)
    IN  IF idx # 0
        THEN [ d |-> d,
               h |-> [h EXCEPT ![d.AllPatterns[idx]] =
                                   [@ EXCEPT !.Calls = Append(@, callNum)]] ]
        ELSE LET new_cp == Len(h) + 1
                 cd == [ Send |-> sendPatterns, Recv |-> recvPatterns,
                         Count |-> 1, Calls |-> <<callNum>> ]
                 d1 == [d EXCEPT !.AllPatterns = Append(@, new_cp)]
             IN  [ d |-> Classify(d1, new_cp, sendPatterns, DOMAIN sendPatterns),
                   h |-> Append(h, cd) ]

addPatternMergeLast(d, h, callNum, sendPatterns, recvPatterns) ==
    LET idx == FirstMatch(d.AllPatterns, h, sendPatterns, recvPatterns)
    IN  IF idx # 0
        THEN [ d |-> d,
               h |-> [h EXCEPT ![d.AllPatterns[Len(d.AllPatterns)]] =
                                   [@ EXCEPT !.Count = @ + 1,
                                             !.Calls = Append(@, callNum)]] ]
        ELSE LET new_cp == Len(h) + 1
                 cd == [ Send |-> sendPatterns, Recv |-> recvPatterns,
                         Count |-> 1, Calls |-> <<callNum>> ]
                 d1 == [d EXCEPT !.AllPatterns = Append(@, new_cp)]
             IN  [ d |-> Classify(d1, new_cp, sendPatterns, DOMAIN sendPatterns),
                   h |-> Append(h, cd) ]

addPatternClassifyAlways(d, h, callNum, sendPatterns, recvPatterns) ==
    LET idx == FirstMatch(d.AllPatterns, h, sendPatterns, recvPatterns)
    IN  IF idx # 0
        THEN [ d |-> Classify(d, d.AllPatterns[idx], sendPatterns, DOMAIN sendPatterns),
               h |-> [h EXCEPT ![d.AllPatterns[idx]] =
                                   [@ EXCEPT !.Count = @ + 1,
                                             !.Calls = Append(@, callNum)]] ]
        ELSE LET new_cp == Len(h) + 1
                 cd == [ Send |-> sendPatterns, Recv |-> recvPatterns,
                         Count |-> 1, Calls |-> <<callNum>> ]
                 d1 == [d EXCEPT !.AllPatterns = Append(@, new_cp)]
             IN  [ d |-> Classify(d1, new_cp, sendPatterns, DOMAIN sendPatterns),
                   h |-> Append(h, cd) ]

addPatternViewsGetCopy(d, h, callNum, sendPatterns, recvPatterns) ==
    LET idx == FirstMatch(d.AllPatterns, h, sendPatterns, recvPatterns)
    IN  IF idx # 0
        THEN [ d |-> d,
               h |-> [h EXCEPT ![d.AllPatterns[idx]] =
                                   [@ EXCEPT !.Count = @ + 1,
                                             !.Calls = Append(@, callNum)]] ]
        ELSE LET new_cp == Len(h) + 1
                 cd == [ Send |-> sendPatterns, Recv |-> recvPatterns,
                         Count |-> 1, Calls |-> <<callNum>> ]
                 d1 == [d EXCEPT !.AllPatterns = Append(@, new_cp)]
             IN  [ d |-> Classify(d1, new_cp + 1, sendPatterns, DOMAIN sendPatterns),
                   h |-> Append(Append(h, cd), cd) ]

addPattern(d, h, callNum, sendPatterns, recvPatterns) ==
    LET idx == FirstMatch(d.AllPatterns, h, sendPatterns, recvPatterns)
    IN  IF idx # 0
        THEN [ d |-> d,
               h |-> [h EXCEPT ![d.AllPatterns[idx]] =
                                   [@ EXCEPT !.Count = @ + 1,
                                             !.Calls = Append(@, callNum)]] ]
        ELSE LET new_cp == Len(h) + 1
                 cd == [ Send |-> sendPatterns, Recv |-> recvPatterns,
                         Count |-> 1, Calls |-> <<callNum>> ]
                 d1 == [d EXCEPT !.AllPatterns = Append(@, new_cp)]
             IN  [ d |-> Classify(d1, new_cp, sendPatterns, DOMAIN sendPatterns),
                   h |-> Append(h, cd) ]

\* GlobalAddPattern with a new bucket put in front of the list.
GlobalAddPatternPrepend(cp, h, callNum, sendPatterns, recvPatterns) ==
    LET idx == FirstMatch(cp, h, sendPatterns, recvPatterns)
    IN  IF idx # 0
        THEN [ cp |-> cp,
               h  |-> [h EXCEPT ![cp[idx]] =
                                   [@ EXCEPT !.Count = @ + 1,
                                             !.Calls = Append(@, callNum)]] ]
        ELSE [ cp |-> <<Len(h) + 1>> \o cp,
               h  |-> Append(h, [ Send |-> sendPatterns, Recv |-> recvPatterns,
                                  Count |-> 1, Calls |-> <<callNum>> ]) ]

\* func (globalPatterns *GlobalPatterns) addPattern of srcountsanalyzer: the
\* same scan and merge, without topology views.
GlobalAddPattern(cp, h, callNum, sendPatterns, recvPatterns) ==
    LET idx == FirstMatch(cp, h, sendPatterns, recvPatterns)
    IN  IF idx # 0
        THEN [ cp |-> cp,
               h  |-> [h EXCEPT ![cp[idx]] =
                                   [@ EXCEPT !.Count = @ + 1,
                                             !.Calls = Append(@, callNum)]] ]
        ELSE [ cp |-> Append(cp, Len(h) + 1),
               h  |-> Append(h, [ Send |-> sendPatterns, Recv |-> recvPatterns,
                                  Count |-> 1, Calls |-> <<callNum>> ]) ]


\* patternIsInList: the Count of the first element of list that has, in the
\* direction ctx, an entry whose number of ranks is numRanks (the peer count
\* read from the list is compared with itself); 0 when there is none.
EntryMatches(numPeers, numRanks, sig) ==
    \E numP \in DOMAIN sig : numP = numP /\ numRanks = sig[numP]

patternIsInListCtxSwapped(numPeers, numRanks, ctx, list, h) ==
    LET hits == { idx \in 1..Len(list) :
                    IF ctx # "SEND"
                    THEN EntryMatches(numPeers, numRanks, h[list[idx]].Send)
                    ELSE EntryMatches(numPeers, numRanks, h[list[idx]].Recv) }
    IN  IF hits = {} THEN 0
        ELSE h[list[CHOOSE idx \in hits : \A j \in hits : idx <= j]].Count

patternIsInList(numPeers, numRanks, ctx, list, h) ==
    LET hits == { idx \in 1..Len(list) :
                    IF ctx = "SEND"
                    THEN EntryMatches(numPeers, numRanks, h[list[idx]].Send)
                    ELSE EntryMatches(numPeers, numRanks, h[list[idx]].Recv) }
    IN  IF hits = {} THEN 0
        ELSE h[list[CHOOSE idx \in hits : \A j \in hits : idx <= j]].Count

sameListOfPatternsCountsCompared(patterns1, patterns2, h) ==
    /\ \A x \in 1..Len(patterns1) :
          \A numPeers \in DOMAIN h[patterns1[x]].Send :
             patternIsInList(numPeers, h[patterns1[x]].Send[numPeers], "SEND",
                             patterns2, h) = h[patterns1[x]].Count
    /\ \A x \in 1..Len(patterns1) :
          \A numPeers \in DOMAIN h[patterns1[x]].Recv :
             patternIsInList(numPeers, h[patterns1[x]].Recv[numPeers], "RECV",
                             patterns2, h) = h[patterns1[x]].Count

sameListOfPatterns(patterns1, patterns2, h) ==
    /\ \A x \in 1..Len(patterns1) :
          \A numPeers \in DOMAIN h[patterns1[x]].Send :
             patternIsInList(numPeers, h[patterns1[x]].Send[numPeers], "SEND",
                             patterns2, h) # 0
    /\ \A x \in 1..Len(patterns1) :
          \A numPeers \in DOMAIN h[patterns1[x]].Recv :
             patternIsInList(numPeers, h[patterns1[x]].Recv[numPeers], "RECV",
                             patterns2, h) # 0

Same(patterns1, patterns2, h) ==
    sameListOfPatterns(patterns1.AllPatterns, patterns2.AllPatterns, h)

(***************************************************************************)
(* Report writing.  A file is the sequence of the strings written to it,   *)
(* one element for each fd.WriteString call.                               *)
(***************************************************************************)
NoFile == <<"no file">>

RECURSIVE SortedSeq(_)
SortedSeq(S) ==
    IF S = {} THEN <<>>
    ELSE LET m == CHOOSE x \in S : \A y \in S : x <= y
         IN  <<m>> \o SortedSeq(S \ {m})

Reverse(s) == [k \in 1..Len(s) |-> s[Len(s) + 1 - k]]

\* The order in which range visits the keys of a map is picked by the Go
\* runtime: ascending or descending covers every order of the signatures
\* used here, which have at most two entries.
KeysInOrder(sig, asc) ==
    IF asc THEN SortedSeq(DOMAIN sig) ELSE Reverse(SortedSeq(DOMAIN sig))

RECURSIVE Flatten(_)
Flatten(ss) == IF ss = <<>> THEN <<>> ELSE Head(ss) \o Flatten(Tail(ss))

writeDataToFile(cd, asc) ==
    [k \in 1..MapLen(cd.Send) |->
        <<"ranks sent to", cd.Send[KeysInOrder(cd.Send, asc)[k]],
          KeysInOrder(cd.Send, asc)[k]>>]
    \o
    [k \in 1..MapLen(cd.Recv) |->
        <<"ranks recv'd from", cd.Recv[KeysInOrder(cd.Recv, asc)[k]],
          KeysInOrder(cd.Recv, asc)[k]>>]

\* WriteSubcommNtoNPatterns, WriteSubcomm1toNPatterns and
\* WriteSubcommNto1Patterns differ in the title and in the view they print.
WriteSubcommPatterns(title, view, ranks, stats, pats, h, asc) ==
    <<  <<title>>, <<"### Pattern(s) description">> >>
    \o Flatten([k \in 1..Len(pats[ranks[1]][view]) |->
                  writeDataToFile(h[pats[ranks[1]][view][k]], asc)])
    \o << <<"### Sub-communicator(s) information">> >>
    \o Flatten([r \in 1..Len(ranks) |->
                  << <<"-> Subcommunicator led by rank", ranks[r]>> >>
                  \o [num \in 1..Len(pats[ranks[r]][view]) |->
                        <<"pattern #", num - 1,
                          h[pats[ranks[r]][view][num]].Count,
                          stats[ranks[r]].TotalNumCalls>>]])

WriteSubcommNtoNPatterns(ranks, stats, pats, h, asc) ==
    WriteSubcommPatterns("## N to n patterns", "NToN", ranks, stats, pats, h, asc)

WriteSubcomm1toNPatterns(ranks, stats, pats, h, asc) ==
    WriteSubcommPatterns("## 1 to n patterns", "OneToN", ranks, stats, pats, h, asc)

WriteSubcommNto1Patterns(ranks, stats, pats, h, asc) ==
    WriteSubcommPatterns("## N to 1 patterns", "NToOne", ranks, stats, pats, h, asc)

Header == <<"Alltoallv on sub-communicators detected. # Patterns summary">>

\* ReportBody with the 1 to n section written before the N to n section.
ReportBodyOneToNFirst(ranks, stats, pats, h, asc) ==
    (IF Len(pats[ranks[1]].OneToN) > 0
     THEN WriteSubcomm1toNPatterns(ranks, stats, pats, h, asc) ELSE <<>>)
    \o (IF Len(pats[ranks[1]].NToN) > 0
        THEN WriteSubcommNtoNPatterns(ranks, stats, pats, h, asc) ELSE <<>>)
    \o (IF Len(pats[ranks[1]].NToOne) > 0
        THEN WriteSubcommNto1Patterns(ranks, stats, pats, h, asc) ELSE <<>>)
    \o << <<"## All 0 counts pattern; no data exchanged">> >>
    \o Flatten([r \in 1..Len(ranks) |->
                  IF Len(pats[ranks[r]].Empty) > 0
                  THEN << <<"-> Sub-communicator led by rank", ranks[r],
                            Len(pats[ranks[r]].Empty),
                            stats[ranks[r]].TotalNumCalls>> >>
                  ELSE <<>>])
    \o << <<"# Counts analysis">> >>
    \o Flatten([r \in 1..Len(ranks) |->
                  << <<"-> Sub-communicator led by rank", ranks[r]>> >>
                  \o [b \in 1..Len(stats[ranks[r]].Bins) |->
                        IF stats[ranks[r]].Bins[b].Max # -1
                        THEN <<"messages of size between",
                               stats[ranks[r]].Bins[b].Size,
                               stats[ranks[r]].Bins[b].Min,
                               stats[ranks[r]].Bins[b].Max - 1>>
                        ELSE <<"messages larger or equal",
                               stats[ranks[r]].Bins[b].Size,
                               stats[ranks[r]].Bins[b].Min>>]])

\* Everything AnalyzeSubCommsResults writes after the header when no write
\* fails; ranks is the sorted list of the keys of stats, not empty.
ReportBody(ranks, stats, pats, h, asc) ==
    (IF Len(pats[ranks[1]].NToN) > 0
     THEN WriteSubcommNtoNPatterns(ranks, stats, pats, h, asc) ELSE <<>>)
    \o (IF Len(pats[ranks[1]].OneToN) > 0
        THEN WriteSubcomm1toNPatterns(ranks, stats, pats, h, asc) ELSE <<>>)
    \o (IF Len(pats[ranks[1]].NToOne) > 0
        THEN WriteSubcommNto1Patterns(ranks, stats, pats, h, asc) ELSE <<>>)
    \o << <<"## All 0 counts pattern; no data exchanged">> >>
    \o Flatten([r \in 1..Len(ranks) |->
                  IF Len(pats[ranks[r]].Empty) > 0
                  THEN << <<"-> Sub-communicator led by rank", ranks[r],
                            Len(pats[ranks[r]].Empty),
                            stats[ranks[r]].TotalNumCalls>> >>
                  ELSE <<>>])
    \o << <<"# Counts analysis">> >>
    \o Flatten([r \in 1..Len(ranks) |->
                  << <<"-> Sub-communicator led by rank", ranks[r]>> >>
                  \o [b \in 1..Len(stats[ranks[r]].Bins) |->
                        IF stats[ranks[r]].Bins[b].Max # -1
                        THEN <<"messages of size between",
                               stats[ranks[r]].Bins[b].Size,
                               stats[ranks[r]].Bins[b].Min,
                               stats[ranks[r]].Bins[b].Max - 1>>
                        ELSE <<"messages larger or equal",
                               stats[ranks[r]].Bins[b].Size,
                               stats[ranks[r]].Bins[b].Min>>]])

(***************************************************************************)
(* The patterns file and the patterns summary file of a rank.  A file is   *)
(* the sequence of its lines; a line is a tuple whose first element is the *)
(* text the line starts with.  The line of the call indices is             *)
(* <<"Alltoallv calls: ", rest>> where rest is the sequence of the tokens  *)
(* that follow the prefix, up to and including the newline.                *)
(***************************************************************************)
NewLine == <<"\n">>

Dash == <<"-">>

Comma == <<",">>

\* The decimal numeral of n (strconv.Itoa and strconv.Atoi are inverse of
\* each other on it).
Numeral(n) == <<"num", n>>

IsNumeral(t) == Len(t) = 2 /\ t[1] = "num"

BlankLine == <<"\n">>

\* notation.CompressIntArray: the contiguous runs of array, a run of several
\* values written a-b and a single value written a, joined by commas.
RunEnd(array) ==
    CHOOSE e \in 1..Len(array) :
       /\ \A j \in 1..(e - 1) : array[j + 1] = array[j] + 1
       /\ e = Len(array) \/ array[e + 1] # array[e] + 1

RECURSIVE CompressIntArray(_)
CompressIntArray(array) ==
    IF array = <<>> THEN <<>>
    ELSE LET e    == RunEnd(array)
             run  == IF e = 1 THEN <<Numeral(array[1])>>
                     ELSE <<Numeral(array[1]), Dash, Numeral(array[e])>>
             rest == SubSeq(array, e + 1, Len(array))
         IN  IF rest = <<>> THEN run
             ELSE run \o <<Comma>> \o CompressIntArray(rest)

\* strings.Split(str, ","): the pieces between the commas.
RECURSIVE Split(_)
Split(str) ==
    IF \A k \in 1..Len(str) : str[k] # Comma THEN <<str>>
    ELSE LET k == CHOOSE x \in 1..Len(str) :
                     str[x] = Comma /\ \A y \in 1..(x - 1) : str[y] # Comma
         IN  <<SubSeq(str, 1, k - 1)>> \o Split(SubSeq(str, k + 1, Len(str)))

\* One piece of a compressed list: "a" or "a-b"; anything else is an error.
ExpandPiece(piece) ==
    IF Len(piece) = 1 /\ IsNumeral(piece[1])
    THEN [ ids |-> <<piece[1][2]>>, err |-> FALSE ]
    ELSE IF /\ Len(piece) = 3
            /\ IsNumeral(piece[1])
            /\ piece[2] = Dash
            /\ IsNumeral(piece[3])
    THEN [ ids |-> [k \in 1..(piece[3][2] - piece[1][2] + 1) |-> piece[1][2] + k - 1],
           err |-> FALSE ]
    ELSE [ ids |-> <<>>, err |-> TRUE ]

\* notation.ConvertCompressedCallListToIntSlice: the values a compressed
\* list stands for, in the order of the list.
ConvertCompressedCallListToIntSlice(str) ==
    LET pieces == Split(str)
        ex     == [k \in 1..Len(pieces) |-> ExpandPiece(pieces[k])]
    IN  IF \E k \in 1..Len(pieces) : ex[k].err
        THEN [ ids |-> <<>>, err |-> TRUE ]
        ELSE [ ids |-> Flatten([k \in 1..Len(pieces) |-> ex[k].ids]), err |-> FALSE ]

\* strings.TrimLeft(line, "Alltoallv calls: ") drops every leading character
\* of the cut set: the prefix, and nothing of a list since a list starts
\* with a digit.
TrimLeft(line) == line[2]

\* strings.TrimRight(str, "\n")
RECURSIVE TrimRight(_)
TrimRight(str) ==
    IF str # <<>> /\ str[Len(str)] = NewLine
    THEN TrimRight(SubSeq(str, 1, Len(str) - 1))
    ELSE str

\* WriteToFile: its WriteString calls, each with the lines it writes.  The
\* first call writes the pattern line and an empty line.
WriteToFile(num, totalNumCalls, cd, asc) ==
    << << <<"## Pattern #", num, cd.Count, totalNumCalls>>, BlankLine >>,
       << <<"Alltoallv calls: ", CompressIntArray(cd.Calls) \o <<NewLine>> >> >> >>
    \o [k \in 1..Len(writeDataToFile(cd, asc)) |-> <<writeDataToFile(cd, asc)[k]>>]
    \o << <<BlankLine>> >>

NoSummary(d) == Len(d.OneToN) = 0 /\ Len(d.NToOne) = 0 /\ Len(d.NToN) = 0

\* SaveStats: its WriteString calls on patternsFd.
PatternsFileWrites(d, h, totalNumCalls, asc) ==
    << << <<"# Patterns">> >> >>
    \o Flatten([k \in 1..Len(d.AllPatterns) |->
                  WriteToFile(k - 1, totalNumCalls, h[d.AllPatterns[k]], asc)])

\* SaveStats: its WriteString calls on patternsSummaryFd.  num is raised
\* after each pattern of the 1-to-N section only; in the other two sections
\* it stays 0.
SummaryFileWrites(d, h, totalNumCalls, asc) ==
    IF NoSummary(d)
    THEN << << <<"Nothing special detected; no summary">> >> >>
    ELSE (IF Len(d.OneToN) # 0
          THEN << << <<"# 1 to N patterns">>, BlankLine >> >>
               \o Flatten([k \in 1..Len(d.OneToN) |->
                             WriteToFile(k - 1, totalNumCalls, h[d.OneToN[k]], asc)])
          ELSE <<>>)
         \o (IF Len(d.NToOne) # 0
             THEN << << BlankLine, <<"# N to 1 patterns">>, BlankLine >> >>
                  \o Flatten([k \in 1..Len(d.NToOne) |->
                                WriteToFile(0, totalNumCalls, h[d.NToOne[k]], asc)])
             ELSE <<>>)
         \o (IF Len(d.NToN) # 0
             THEN << << BlankLine, <<"# N to n patterns">>, BlankLine >> >>
                  \o Flatten([k \in 1..Len(d.NToN) |->
                                WriteToFile(0, totalNumCalls, h[d.NToN[k]], asc)])
             ELSE <<>>)

GetPatternHeaderNoTrimRight(file, pos) ==
    IF pos > Len(file) THEN [ callIDs |-> <<>>, err |-> "EOF", pos |-> pos ]
    ELSE IF file[pos][1] # "## Pattern #"
    THEN [ callIDs |-> <<>>, err |-> "error", pos |-> pos + 1 ]
    ELSE IF pos + 1 > Len(file)
    THEN [ callIDs |-> <<>>, err |-> "EOF", pos |-> pos + 1 ]
    ELSE IF file[pos + 1][1] # "Alltoallv calls: "
    THEN [ callIDs |-> <<>>, err |-> "error", pos |-> pos + 2 ]
    ELSE LET conv == ConvertCompressedCallListToIntSlice(TrimLeft(file[pos + 1]))
         IN  IF conv.err
             THEN [ callIDs |-> <<>>, err |-> "error", pos |-> pos + 2 ]
             ELSE [ callIDs |-> conv.ids, err |-> "nil", pos |-> pos + 2 ]

\* GetPatternHeader on a reader at line pos of file: the call indices of
\* the block, the error ("nil", "EOF" for io.EOF, "error" for any other)
\* and the position of the reader afterwards.
GetPatternHeader(file, pos) ==
    IF pos > Len(file) THEN [ callIDs |-> <<>>, err |-> "EOF", pos |-> pos ]
    ELSE IF file[pos][1] # "## Pattern #"
    THEN [ callIDs |-> <<>>, err |-> "error", pos |-> pos + 1 ]
    ELSE IF pos + 1 > Len(file)
    THEN [ callIDs |-> <<>>, err |-> "EOF", pos |-> pos + 1 ]
    ELSE IF file[pos + 1][1] # "Alltoallv calls: "
    THEN [ callIDs |-> <<>>, err |-> "error", pos |-> pos + 2 ]
    ELSE LET conv == ConvertCompressedCallListToIntSlice(
                        TrimRight(TrimLeft(file[pos + 1])))
         IN  IF conv.err
             THEN [ callIDs |-> <<>>, err |-> "error", pos |-> pos + 2 ]
             ELSE [ callIDs |-> conv.ids, err |-> "nil", pos |-> pos + 2 ]

\* getPatterns: the lines up to the next empty line or the end of the file;
\* a line of call indices among them is an error.
RECURSIVE getPatterns(_, _)
getPatterns(file, pos) ==
    IF pos > Len(file) THEN [ patterns |-> <<>>, err |-> FALSE, pos |-> pos ]
    ELSE IF file[pos] = BlankLine
    THEN [ patterns |-> <<>>, err |-> FALSE, pos |-> pos + 1 ]
    ELSE IF file[pos][1] = "Alltoallv calls: "
    THEN [ patterns |-> <<>>, err |-> TRUE, pos |-> pos + 1 ]
    ELSE LET more == getPatterns(file, pos + 1)
         IN  [ patterns |-> <<file[pos]>> \o more.patterns,
               err |-> more.err, pos |-> more.pos ]

RECURSIVE GetCallLoopNotFoundNil(_, _, _)
GetCallLoopNotFoundNil(file, pos, callNum) ==
    LET hd == GetPatternHeader(file, pos)
    IN  IF hd.err = "error" THEN [ patterns |-> <<>>, err |-> "unable to read" ]
        ELSE IF hd.err = "EOF" THEN [ patterns |-> <<>>, err |-> "nil" ]
        ELSE LET gp == getPatterns(file, hd.pos)
             IN  IF \E k \in 1..Len(hd.callIDs) : hd.callIDs[k] = callNum
                 THEN IF gp.err THEN [ patterns |-> <<>>, err |-> "nil" ]
                      ELSE [ patterns |-> gp.patterns, err |-> "nil" ]
                 ELSE IF gp.err THEN [ patterns |-> <<>>, err |-> "nil" ]
                      ELSE GetCallLoopNotFoundNil(file, gp.pos, callNum)

\* The loop of GetCall over the blocks of the file, the reader at line pos.
RECURSIVE GetCallLoop(_, _, _)
GetCallLoop(file, pos, callNum) ==
    LET hd == GetPatternHeader(file, pos)
    IN  IF hd.err = "error" THEN [ patterns |-> <<>>, err |-> "unable to read" ]
        ELSE IF hd.err = "EOF" THEN [ patterns |-> <<>>, err |-> "unable to find" ]
        ELSE LET gp == getPatterns(file, hd.pos)
             IN  IF \E k \in 1..Len(hd.callIDs) : hd.callIDs[k] = callNum
                 THEN IF gp.err THEN [ patterns |-> <<>>, err |-> "nil" ]
                      ELSE [ patterns |-> gp.patterns, err |-> "nil" ]
                 ELSE IF gp.err THEN [ patterns |-> <<>>, err |-> "nil" ]
                      ELSE GetCallLoop(file, gp.pos, callNum)

\* patterns.GetCall on the patterns file file: the lines it returns and its
\* error, "nil" when it returns none.
GetCall(file, callNum) ==
    IF file = NoFile THEN [ patterns |-> <<>>, err |-> "open" ]
    ELSE IF file = <<>> THEN [ patterns |-> <<>>, err |-> "EOF" ]
    ELSE IF file[1] # <<"# Patterns">>
    THEN [ patterns |-> <<>>, err |-> "wrong file format" ]
    ELSE GetCallLoop(file, 2, callNum)

NoCall == [ callNum |-> -1, patterns |-> <<>>, err |-> "none" ]

(***************************************************************************)
(* profiler.AnalyzeSubCommsResults                                         *)
(***************************************************************************)
Perms(S) ==
    { s \in [1..Cardinality(S) -> S] : \A a, b \in 1..Cardinality(S) : s[a] = s[b] => a = b }

SameLengthsAllOnly(ref, p) == Len(ref.AllPatterns) = Len(p.AllPatterns)

SameLengths(ref, p) ==
    /\ Len(ref.AllPatterns) = Len(p.AllPatterns)
    /\ Len(ref.NToOne) = Len(p.NToOne)
    /\ Len(ref.NToN) = Len(p.NToN)
    /\ Len(ref.OneToN) = Len(p.OneToN)

\* The loop over allPatterns, visited in the order order: TRUE when it
\* leaves the function with return nil, FALSE when it runs to its end.  The
\* first group visited is the reference.
RECURSIVE LoopReturnsFrom(_, _, _, _)
LoopReturnsFrom(k, order, pats, h) ==
    IF k > Len(order) THEN FALSE
    ELSE IF ~SameLengths(pats[order[1]], pats[order[k]]) THEN TRUE
    ELSE IF ~Same(pats[order[1]], pats[order[k]], h) THEN TRUE
    ELSE LoopReturnsFrom(k + 1, order, pats, h)

LoopReturns(order, pats, h) == LoopReturnsFrom(2, order, pats, h)


(***************************************************************************)
(* History of one addPattern scan: the calls of CompareCallPatterns it     *)
(* makes, in order, each with its two arguments and its result.  The scan  *)
(* stops at the first element that matches, and && compares the Recv maps  *)
(* only when the Send maps compared equal.                                 *)
(***************************************************************************)
RECURSIVE ScanLog(_, _, _, _, _)
ScanLog(idx, list, h, sendPatterns, recvPatterns) ==
    IF idx > Len(list) THEN <<>>
    ELSE LET x == h[list[idx]]
             s == CompareCallPatterns(x.Send, sendPatterns)
             r == CompareCallPatterns(x.Recv, recvPatterns)
             sendCall == [p1 |-> x.Send, p2 |-> sendPatterns, res |-> s]
             recvCall == [p1 |-> x.Recv, p2 |-> recvPatterns, res |-> r]
         IN  IF ~s THEN <<sendCall>> \o ScanLog(idx + 1, list, h, sendPatterns, recvPatterns)
             ELSE IF ~r
                  THEN <<sendCall, recvCall>>
                       \o ScanLog(idx + 1, list, h, sendPatterns, recvPatterns)
                  ELSE <<sendCall, recvCall>>

(***************************************************************************)
(* patterns.ParseFiles: one iteration of its loop, its error return and    *)
(* its normal return.                                                      *)
(***************************************************************************)
\* new(CallData) leaves Send and Recv nil: maps of length 0.
NewEmptyPattern(callNum) ==
    [ Send |-> EmptyMap, Recv |-> EmptyMap, Count |-> 1, Calls |-> <<callNum>> ]

NoDataExchangedEither(callCountsData) ==
    \/ callCountsData.TotalSendNonZeroCounts = 0
    \/ callCountsData.TotalRecvNonZeroCounts = 0

\* The test for a call that acts like a barrier (no data exchanged).
NoDataExchanged(callCountsData) ==
    /\ callCountsData.TotalSendNonZeroCounts = 0
    /\ callCountsData.TotalRecvNonZeroCounts = 0

ParseFilesIter(calls) ==
    /\ tool = "profile"
    /\ pc = "parse"
    /\ i < numCalls
    /\ \E callCountsData \in calls :
          LET a == addPattern(patterns, heap, i, callCountsData.SendPatterns,
                              callCountsData.RecvPatterns)
              barrier == NoDataExchanged(callCountsData)
          IN  /\ patterns' = IF barrier
                             THEN [a.d EXCEPT !.Empty = Append(@, Len(a.h) + 1)]
                             ELSE a.d
              /\ heap' = IF barrier THEN Append(a.h, NewEmptyPattern(i)) ELSE a.h
              /\ fed' = Append(fed, <<callCountsData.SendPatterns,
                                      callCountsData.RecvPatterns>>)
              /\ cmp' = ScanLog(1, patterns.AllPatterns, heap,
                                callCountsData.SendPatterns,
                                callCountsData.RecvPatterns)
    /\ callsCountsData' = callsCountsData + 1
    /\ i' = i + 1
    /\ UNCHANGED <<handlers, cache, loadLog, callData, outputFiles, patternsFile, summaryFile, getCall, tool, pc, todo, rank, numCalls, globalPatterns, allStats,
                   allPatterns, visit, fd, report, ret>>

\* counts.ParseFiles fails: ParseFiles, analyzeJobRankCounts and
\* analyzeCountFiles return the error (analyzeCountFiles with nil maps) and
\* main exits.
ParseFilesFail ==
    /\ tool = "profile"
    /\ pc = "parse"
    /\ i < numCalls
    /\ pc' = "exit"
    /\ patterns' = EmptyData
    /\ heap' = <<>>
    /\ fed' = <<>>
    /\ cmp' = <<>>
    /\ i' = 0
    /\ callsCountsData' = 0
    /\ allStats' = EmptyMap
    /\ allPatterns' = EmptyMap
    /\ todo' = <<>>
    /\ UNCHANGED <<handlers, cache, loadLog, callData, outputFiles, patternsFile, summaryFile, getCall, tool, rank, numCalls, globalPatterns, visit, fd, report, ret>>

ParseFilesReturn ==
    /\ tool = "profile"
    /\ pc = "parse"
    /\ i = numCalls
    /\ pc' = "parsed"
    /\ UNCHANGED <<handlers, cache, loadLog, callData, outputFiles, patternsFile, summaryFile, getCall, tool, todo, rank, numCalls, i, patterns, callsCountsData,
                   globalPatterns, heap, fed, cmp, allStats, allPatterns, visit, fd,
                   report, ret>>

(***************************************************************************)
(* srcountsanalyzer: the loop of main over the calls of the count files.   *)
(***************************************************************************)
SrCountsAnalyzerIter(calls) ==
    /\ tool = "srcountsanalyzer"
    /\ pc = "parse"
    /\ i < numCalls
    /\ \E callInfo \in calls :
          LET a == GlobalAddPattern(globalPatterns, heap, i, callInfo.SendPatterns,
                                    callInfo.RecvPatterns)
          IN  /\ globalPatterns' = a.cp
              /\ heap' = a.h
              /\ fed' = Append(fed, <<callInfo.SendPatterns, callInfo.RecvPatterns>>)
              /\ cmp' = ScanLog(1, globalPatterns, heap, callInfo.SendPatterns,
                                callInfo.RecvPatterns)
    /\ i' = i + 1
    /\ UNCHANGED <<handlers, cache, loadLog, callData, outputFiles, patternsFile, summaryFile, getCall, tool, pc, todo, rank, numCalls, patterns, callsCountsData,
                   allStats, allPatterns, visit, fd, report, ret>>

\* datafilereader.LookupCall fails: log.Fatalf
SrCountsAnalyzerFail ==
    /\ tool = "srcountsanalyzer"
    /\ pc = "parse"
    /\ i < numCalls
    /\ pc' = "exit"
    /\ globalPatterns' = <<>>
    /\ heap' = <<>>
    /\ fed' = <<>>
    /\ cmp' = <<>>
    /\ i' = 0
    /\ UNCHANGED <<handlers, cache, loadLog, callData, outputFiles, patternsFile, summaryFile, getCall, tool, todo, rank, numCalls, patterns, callsCountsData, allStats,
                   allPatterns, visit, fd, report, ret>>

SrCountsAnalyzerLoopEnd ==
    /\ tool = "srcountsanalyzer"
    /\ pc = "parse"
    /\ i = numCalls
    /\ pc' = "parsed"
    /\ UNCHANGED <<handlers, cache, loadLog, callData, outputFiles, patternsFile, summaryFile, getCall, tool, todo, rank, numCalls, i, patterns, callsCountsData,
                   globalPatterns, heap, fed, cmp, allStats, allPatterns, visit, fd,
                   report, ret>>

(***************************************************************************)
(* profile: analyzeCountFiles visits the sorted sendRanks, and for each    *)
(* rank analyzeJobRankCounts runs ParseFiles and returns the statistics    *)
(* and the patterns, which are stored under the rank.                      *)
(***************************************************************************)
\* counts.GetBinsFromFile: the bins of the count file (one bin without
\* upper limit here; their content plays no role in the classification).
GetBinsFromFile == << [Min |-> 0, Max |-> -1, Size |-> 0] >>

\* type OutputFileInfo before GetCountProfilerFileDesc fills it: a file
\* descriptor is "nil", "open", "closed" or "closed twice"; Cleanup is "nil",
\* "set", "called", or "faulted" once the nil function value was called.
NoOutputFiles ==
    [ defaultFd |-> "nil", patternsFd |-> "nil", patternsSummaryFd |-> "nil",
      Cleanup |-> "nil" ]

\* The number of files GetCountProfilerFileDesc opens.
NumOutputFiles == 3

\* GetCountProfilerFileDesc when the first opens calls of os.OpenFile
\* succeed: the function returns at the first failure with the descriptors
\* opened so far and without Cleanup.
GetCountProfilerFileDesc(opens) ==
    [ info |-> [ defaultFd         |-> IF opens >= 1 THEN "open" ELSE "nil",
                 patternsFd        |-> IF opens >= 2 THEN "open" ELSE "nil",
                 patternsSummaryFd |-> IF opens >= 3 THEN "open" ELSE "nil",
                 Cleanup           |-> IF opens >= 3 THEN "set" ELSE "nil" ],
      err  |-> opens < NumOutputFiles ]

\* (*os.File).Close: an error, which Cleanup drops, on a nil or closed file.
Close(f) ==
    IF f = "open" THEN "closed"
    ELSE IF f = "closed" THEN "closed twice"
    ELSE f

\* The call outputFilesInfo.Cleanup() that defer runs when
\* analyzeJobRankCounts returns: a call of a nil function value faults.
Cleanup(info) ==
    IF info.Cleanup = "nil"
    THEN [info EXCEPT !.Cleanup = "faulted"]
    ELSE [ defaultFd         |-> Close(info.defaultFd),
           patternsFd        |-> Close(info.patternsFd),
           patternsSummaryFd |-> Close(info.patternsSummaryFd),
           Cleanup           |-> "called" ]


AnalyzeJobRankCounts ==
    /\ tool = "profile"
    /\ pc = "scan"
    /\ todo # <<>>
    /\ rank' = Head(todo)
    /\ todo' = Tail(todo)
    /\ numCalls' \in 0..MaxGroupCalls
    /\ i' = 0
    /\ patterns' = EmptyData
    /\ callsCountsData' = 0
    /\ fed' = <<>>
    /\ cmp' = <<>>
    /\ patternsFile' = NoFile
    /\ summaryFile' = NoFile
    /\ outputFiles' = NoOutputFiles
    /\ pc' = "parse"
    /\ UNCHANGED <<handlers, cache, loadLog, callData, getCall, tool, globalPatterns, heap, allStats, allPatterns, visit, fd,
                   report, ret>>

AnalyzeJobRankCountsReturn ==
    /\ tool = "profile"
    /\ pc = "saved"
    /\ allStats' = (rank :> [TotalNumCalls |-> callsCountsData,
                             Bins |-> GetBinsFromFile]) @@ allStats
    /\ allPatterns' = (rank :> patterns) @@ allPatterns
    /\ pc' = "scan"
    /\ UNCHANGED <<handlers, cache, loadLog, callData, outputFiles, patternsFile, summaryFile, getCall, tool, todo, rank, numCalls, i, patterns, callsCountsData,
                   globalPatterns, heap, fed, cmp, visit, fd, report, ret>>

\* main exits (or faults) after an error of analyzeJobRankCounts.
SaveStatsExit ==
    /\ pc' = "exit"
    /\ patterns' = EmptyData
    /\ heap' = <<>>
    /\ fed' = <<>>
    /\ cmp' = <<>>
    /\ i' = 0
    /\ callsCountsData' = 0
    /\ allStats' = EmptyMap
    /\ allPatterns' = EmptyMap
    /\ todo' = <<>>

\* analyzeJobRankCounts after ParseFiles: GetCountProfilerFileDesc creates
\* (or truncates) the files of the rank, Cleanup is deferred and SaveStats
\* writes the files; opens is the number of os.OpenFile calls that succeed,
\* okWrites the number of WriteString calls on the patterns and summary
\* files that succeed before one fails (all of them when none fails).  An
\* error makes analyzeJobRankCounts and analyzeCountFiles return it, and
\* main exits; the files keep what was written.  When an open fails, the
\* revision of part_000 returns the error before the defer statement
\* (checked); the revision of profile.go drops the error, defers the nil
\* Cleanup and calls SaveStats, whose writes on a nil descriptor fail.
SaveStats ==
    /\ tool = "profile"
    /\ pc = "parsed"
    /\ \E asc \in BOOLEAN, opens \in 0..NumOutputFiles :
          \E pw \in {PatternsFileWrites(patterns, heap, numCalls, asc)},
             sw \in {SummaryFileWrites(patterns, heap, numCalls, asc)},
             got \in {GetCountProfilerFileDesc(opens)} :
              IF ~got.err
              THEN \E okWrites \in 0..(Len(pw) + Len(sw)) :
                      /\ patternsFile' = IF okWrites < Len(pw)
                                         THEN Flatten(SubSeq(pw, 1, okWrites))
                                         ELSE Flatten(pw)
                      /\ summaryFile' = IF okWrites > Len(pw)
                                        THEN Flatten(SubSeq(sw, 1, okWrites - Len(pw)))
                                        ELSE <<>>
                      /\ outputFiles' = Cleanup(got.info)
                      /\ IF okWrites = Len(pw) + Len(sw)
                         THEN /\ pc' = "saved"
                              /\ UNCHANGED <<patterns, heap, fed, cmp, i, callsCountsData,
                                             allStats, allPatterns, todo>>
                         ELSE SaveStatsExit
              ELSE \E checked \in BOOLEAN :
                      /\ summaryFile' = NoFile
                      /\ IF checked
                         THEN /\ outputFiles' = got.info
                              /\ patternsFile' = IF got.info.patternsFd = "open"
                                                 THEN <<>> ELSE NoFile
                         ELSE /\ outputFiles' = Cleanup(got.info)
                              /\ IF got.info.patternsFd = "open"
                                 THEN \E okWrites \in 0..Len(pw) :
                                         patternsFile' = Flatten(SubSeq(pw, 1, okWrites))
                                 ELSE patternsFile' = NoFile
                      /\ SaveStatsExit
    /\ UNCHANGED <<handlers, cache, loadLog, callData, tool, rank, numCalls, globalPatterns, visit, fd, report, ret,
                   getCall>>

\* A call of patterns.GetCall for the rank and some call index (webui, via
\* profiler.GetCallData), before or after the rank's files are written.
PatternsGetCall ==
    /\ tool = "profile"
    /\ pc \in {"parsed", "saved"}
    /\ \E callNum \in 0..numCalls :
          getCall' = [ callNum  |-> callNum,
                       patterns |-> GetCall(patternsFile, callNum).patterns,
                       err      |-> GetCall(patternsFile, callNum).err ]
    /\ pc' = "got"
    /\ UNCHANGED <<handlers, cache, loadLog, callData, outputFiles, tool, todo, rank, numCalls, i, patterns, callsCountsData,
                   globalPatterns, heap, fed, cmp, allStats, allPatterns, visit, fd,
                   report, ret, patternsFile, summaryFile>>

\* The steps of profiler.GetCallData that can fail before and after its
\* call of patterns.GetCall, in the order of the code.
StepsBeforeGetCall ==
    << "open send counts", "open recv counts", "lookup send counts",
       "lookup recv counts", "analyze send counts", "analyze recv counts",
       "timings" >>

SilentSteps ==
    { "open send counts", "open recv counts", "lookup send counts",
      "lookup recv counts" }

NoCallInfo == [ ID |-> -1, fails |-> "none", PatternStr |-> <<>>, err |-> "none" ]

\* What GetCallData returns when its step fails fails ("none": no step of
\* its own fails; patterns.GetCall fails or not as the patterns file
\* has it): a failed open or lookup of the counts returns info, nil.
GetCallDataResult(callNum, fails, file) ==
    IF fails \in SilentSteps
    THEN [ ID |-> callNum, fails |-> fails, PatternStr |-> <<>>, err |-> "nil" ]
    ELSE IF \E k \in 1..Len(StepsBeforeGetCall) : StepsBeforeGetCall[k] = fails
    THEN [ ID |-> callNum, fails |-> fails, PatternStr |-> <<>>, err |-> fails ]
    ELSE LET g == GetCall(file, callNum)
         IN  IF g.err # "nil"
             THEN [ ID |-> callNum, fails |-> "patterns", PatternStr |-> <<>>,
                    err |-> g.err ]
             ELSE IF fails = "backtrace"
             THEN [ ID |-> callNum, fails |-> fails, PatternStr |-> g.patterns,
                    err |-> fails ]
             ELSE [ ID |-> callNum, fails |-> "none", PatternStr |-> g.patterns,
                    err |-> "nil" ]

\* A call of profiler.GetCallData for the rank and some call index (webui),
\* before or after the rank's files are written.
GetCallData ==
    /\ tool = "profile"
    /\ pc \in {"parsed", "saved"}
    /\ \E callNum \in 0..numCalls,
          fails \in {"none", "backtrace"}
                       \cup { StepsBeforeGetCall[k] : k \in 1..Len(StepsBeforeGetCall) } :
          callData' = GetCallDataResult(callNum, fails, patternsFile)
    /\ pc' = "called"
    /\ UNCHANGED <<handlers, cache, loadLog, outputFiles, getCall, tool, todo, rank, numCalls, i, patterns,
                   callsCountsData, globalPatterns, heap, fed, cmp, allStats,
                   allPatterns, visit, fd, report, ret, patternsFile, summaryFile>>

(***************************************************************************)
(* profile: main calls AnalyzeSubCommsResults with the two maps.  order is *)
(* the order in which range allPatterns visits the groups, openOk tells    *)
(* whether os.OpenFile succeeds, okWrites is the number of WriteString     *)
(* calls that succeed before one fails (all of them when none fails).      *)
(***************************************************************************)
WriteOutcomeErrorDropped(okWrites, writes, ranks) ==
    IF okWrites = writes /\ ranks = <<>> THEN "panic" ELSE "nil"

\* What the function does after okWrites of its writes WriteString calls
\* succeeded: the first failing call makes it return the error; when all
\* succeed with an empty ranks slice, ranks[0] is out of range.
WriteOutcome(okWrites, writes, ranks) ==
    IF okWrites < writes THEN "error"
    ELSE IF ranks = <<>> THEN "panic"
    ELSE "nil"

AnalyzeSubCommsResults ==
    /\ tool = "profile"
    /\ pc = "scan"
    /\ todo = <<>>
    /\ pc' = "done"
    /\ \E order \in Perms(DOMAIN allPatterns), openOk \in BOOLEAN, asc \in BOOLEAN :
          /\ visit' = order
          /\ IF LoopReturns(order, allPatterns, heap)
             THEN /\ ret' = "nil"
                  /\ fd' = "unopened"
                  /\ report' = report
             ELSE IF ~openOk
             THEN /\ ret' = "error"
                  /\ fd' = "unopened"
                  /\ report' = report
             ELSE LET ranks == SortedSeq(DOMAIN allStats)
                      all == IF ranks = <<>>
                             THEN <<Header>>
                             ELSE <<Header>>
                                  \o ReportBody(ranks, allStats, allPatterns, heap, asc)
                  IN  \E okWrites \in 0..Len(all) :
                         /\ report' = SubSeq(all, 1, okWrites)
                         /\ fd' = "closed"
                         /\ ret' = WriteOutcome(okWrites, Len(all), ranks)
    /\ UNCHANGED <<handlers, cache, loadLog, callData, outputFiles, patternsFile, summaryFile, getCall, tool, todo, rank, numCalls, i, patterns, callsCountsData,
                   globalPatterns, heap, fed, cmp, allStats, allPatterns>>

(***************************************************************************)
(* webui: net/http runs every request in a goroutine of its own, so the    *)
(* handlers registered by displayUI interleave at every access of the      *)
(* global variables; nothing in webui.go synchronises them.                *)
(***************************************************************************)
NumHandlers == 2
MaxLoads == 3

Handlers == 1..NumHandlers

\* The global variables before the first loadData: nil maps and slice.
EmptyCache ==
    [ numCalls |-> "zero", stats |-> "nil", allPatterns |-> "nil",
      allCallsData |-> "nil" ]

IdleHandler == [ pc |-> "idle", kind |-> "none", result |-> "none", seen |-> "none" ]

NoHandlers == [ h \in Handlers |-> IdleHandler ]

NoLoads == [ loads |-> 0, stores |-> 0, readDuringWrite |-> FALSE ]

\* A handler is between the first and the last write of the assignment of
\* the four global variables.
Writing(h) == handlers[h].pc = "assign rest"

OtherWrites(h) == \E o \in Handlers \ {h} : Writing(o)

\* A request for /calls or /patterns arrives: CallsLayoutHandler calls
\* loadData; PatternsHandler calls it when findPatternsSummaryFile finds no
\* summary file, and serves the file otherwise.
Request(h) ==
    /\ tool = "webui"
    /\ handlers[h].pc = "idle"
    /\ \E kind \in {"calls", "patterns"}, summary \in BOOLEAN :
          handlers' = [handlers EXCEPT ![h] =
                         [ pc     |-> IF kind = "patterns" /\ summary
                                      THEN "respond" ELSE "loadData",
                           kind   |-> kind,
                           result |-> "none",
                           seen   |-> "none" ]]
    /\ UNCHANGED <<cache, loadLog>>

\* loadData: if stats == nil.
LoadDataTest(h) ==
    /\ tool = "webui"
    /\ handlers[h].pc = "loadData"
    /\ handlers' = [handlers EXCEPT ![h].pc =
                       IF cache.stats = "nil" THEN "HandleCountsFiles" ELSE "use"]
    /\ loadLog' = [loadLog EXCEPT !.readDuringWrite = @ \/ OtherWrites(h)]
    /\ UNCHANGED cache

\* loadData: the search of the count files and profiler.HandleCountsFiles
\* run; an error of either, or a directory without count files, leaves
\* nil maps (loadData returns the error, which no handler looks at).
HandleCountsFiles(h) ==
    /\ tool = "webui"
    /\ handlers[h].pc = "HandleCountsFiles"
    /\ loadLog.loads < MaxLoads
    /\ \E result \in {"loaded", "nil"} :
          handlers' = [handlers EXCEPT ![h].pc = "assign", ![h].result = result]
    /\ loadLog' = [loadLog EXCEPT !.loads = @ + 1]
    /\ UNCHANGED cache

\* The assignment numCalls, stats, allPatterns, allCallsData, err = ... is
\* four stores, not one: numCalls and stats first.
AssignStats(h) ==
    /\ tool = "webui"
    /\ handlers[h].pc = "assign"
    /\ cache' = [cache EXCEPT !.numCalls = IF handlers[h].result = "loaded"
                                           THEN "set" ELSE "zero",
                              !.stats = handlers[h].result]
    /\ handlers' = [handlers EXCEPT ![h].pc =
                       IF handlers[h].result = "loaded" THEN "assign rest" ELSE "use"]
    /\ loadLog' = [loadLog EXCEPT !.stores =
                      IF handlers[h].result = "loaded" THEN @ + 1 ELSE @]

\* The stores of allPatterns and allCallsData.
AssignRest(h) ==
    /\ tool = "webui"
    /\ handlers[h].pc = "assign rest"
    /\ cache' = [cache EXCEPT !.allPatterns = handlers[h].result,
                              !.allCallsData = handlers[h].result]
    /\ handlers' = [handlers EXCEPT ![h].pc = "use"]
    /\ UNCHANGED loadLog

\* CallsLayoutHandler reads allCallsData for the page; PatternsHandler
\* passes stats and allPatterns to AnalyzeSubCommsResults.
UseData(h) ==
    /\ tool = "webui"
    /\ handlers[h].pc = "use"
    /\ handlers' = [handlers EXCEPT
                       ![h].pc = "respond",
                       ![h].seen = IF handlers[h].kind = "calls"
                                   THEN cache.allCallsData
                                   ELSE cache.allPatterns]
    /\ loadLog' = [loadLog EXCEPT !.readDuringWrite = @ \/ OtherWrites(h)]
    /\ UNCHANGED cache

\* The template is executed and the handler returns.
Respond(h) ==
    /\ tool = "webui"
    /\ handlers[h].pc = "respond"
    /\ handlers' = [handlers EXCEPT ![h] = IdleHandler]
    /\ UNCHANGED <<cache, loadLog>>

profileVars ==
    <<tool, pc, todo, rank, numCalls, i, patterns, callsCountsData, globalPatterns,
      heap, fed, cmp, allStats, allPatterns, visit, fd, report, ret,
      patternsFile, summaryFile, getCall, outputFiles, callData>>

(***************************************************************************)
(* Specifications.  Spec is the profile tool from the discovery of the     *)
(* count files to the consolidated report.  StoreSpec is one               *)
(* classification pass (ParseFiles or the srcountsanalyzer loop) over the  *)
(* richer set of signatures.                                               *)
(***************************************************************************)
Init ==
    /\ tool = "profile"
    /\ pc = "scan"
    /\ todo \in { SortedSeq(S) : S \in SUBSET Ranks }
    /\ rank = 0
    /\ numCalls = 0
    /\ i = 0
    /\ patterns = EmptyData
    /\ callsCountsData = 0
    /\ globalPatterns = <<>>
    /\ heap = <<>>
    /\ fed = <<>>
    /\ cmp = <<>>
    /\ allStats = EmptyMap
    /\ allPatterns = EmptyMap
    /\ visit = <<>>
    /\ fd = "unopened"
    /\ report = NoFile
    /\ ret = "running"
    /\ patternsFile = NoFile
    /\ summaryFile = NoFile
    /\ getCall = NoCall
    /\ outputFiles = NoOutputFiles
    /\ callData = NoCallInfo
    /\ handlers = NoHandlers
    /\ cache = EmptyCache
    /\ loadLog = NoLoads

Next ==
    \/ AnalyzeJobRankCounts
    \/ ParseFilesIter(GroupCalls)
    \/ ParseFilesFail
    \/ ParseFilesReturn
    \/ SaveStats
    \/ AnalyzeJobRankCountsReturn
    \/ AnalyzeSubCommsResults

Spec == Init /\ [][Next]_vars

\* ReportSpec is Spec over the calls of ReportCalls.
ReportNext ==
    \/ AnalyzeJobRankCounts
    \/ ParseFilesIter(ReportCalls)
    \/ ParseFilesFail
    \/ ParseFilesReturn
    \/ SaveStats
    \/ AnalyzeJobRankCountsReturn
    \/ AnalyzeSubCommsResults

ReportSpec == Init /\ [][ReportNext]_vars

\* WebSpec is the web server of webui after displayUI: NumHandlers
\* requests at a time.
WebInit ==
    /\ tool = "webui"
    /\ pc = "serve"
    /\ todo = <<>>
    /\ rank = 0
    /\ numCalls = 0
    /\ i = 0
    /\ patterns = EmptyData
    /\ callsCountsData = 0
    /\ globalPatterns = <<>>
    /\ heap = <<>>
    /\ fed = <<>>
    /\ cmp = <<>>
    /\ allStats = EmptyMap
    /\ allPatterns = EmptyMap
    /\ visit = <<>>
    /\ fd = "unopened"
    /\ report = NoFile
    /\ ret = "running"
    /\ patternsFile = NoFile
    /\ summaryFile = NoFile
    /\ getCall = NoCall
    /\ outputFiles = NoOutputFiles
    /\ callData = NoCallInfo
    /\ handlers = NoHandlers
    /\ cache = EmptyCache
    /\ loadLog = NoLoads

WebNext ==
    \/ \E h \in Handlers : Request(h) /\ UNCHANGED profileVars
    \/ \E h \in Handlers : LoadDataTest(h) /\ UNCHANGED profileVars
    \/ \E h \in Handlers : HandleCountsFiles(h) /\ UNCHANGED profileVars
    \/ \E h \in Handlers : AssignStats(h) /\ UNCHANGED profileVars
    \/ \E h \in Handlers : AssignRest(h) /\ UNCHANGED profileVars
    \/ \E h \in Handlers : UseData(h) /\ UNCHANGED profileVars
    \/ \E h \in Handlers : Respond(h) /\ UNCHANGED profileVars

WebSpec == WebInit /\ [][WebNext]_vars

StoreInit ==
    /\ tool \in {"profile", "srcountsanalyzer"}
    /\ pc = "parse"
    /\ todo = <<>>
    /\ rank = 0
    /\ numCalls \in 0..MaxCalls
    /\ i = 0
    /\ patterns = EmptyData
    /\ callsCountsData = 0
    /\ globalPatterns = <<>>
    /\ heap = <<>>
    /\ fed = <<>>
    /\ cmp = <<>>
    /\ allStats = EmptyMap
    /\ allPatterns = EmptyMap
    /\ visit = <<>>
    /\ fd = "unopened"
    /\ report = NoFile
    /\ ret = "running"
    /\ patternsFile = NoFile
    /\ summaryFile = NoFile
    /\ getCall = NoCall
    /\ outputFiles = NoOutputFiles
    /\ callData = NoCallInfo
    /\ handlers = NoHandlers
    /\ cache = EmptyCache
    /\ loadLog = NoLoads

StoreNext ==
    \/ ParseFilesIter(StoreCalls)
    \/ ParseFilesFail
    \/ ParseFilesReturn
    \/ SrCountsAnalyzerIter(StoreCalls)
    \/ SrCountsAnalyzerFail
    \/ SrCountsAnalyzerLoopEnd

StoreSpec == StoreInit /\ [][StoreNext]_vars

\* FileSpec is one classification pass of the profile tool followed by the
\* writing of the rank's files and one GetCall on the patterns file.
FileInit ==
    /\ tool = "profile"
    /\ pc = "parse"
    /\ todo = <<>>
    /\ rank = 0
    /\ numCalls \in 0..MaxFileCalls
    /\ i = 0
    /\ patterns = EmptyData
    /\ callsCountsData = 0
    /\ globalPatterns = <<>>
    /\ heap = <<>>
    /\ fed = <<>>
    /\ cmp = <<>>
    /\ allStats = EmptyMap
    /\ allPatterns = EmptyMap
    /\ visit = <<>>
    /\ fd = "unopened"
    /\ report = NoFile
    /\ ret = "running"
    /\ patternsFile = NoFile
    /\ summaryFile = NoFile
    /\ getCall = NoCall
    /\ outputFiles = NoOutputFiles
    /\ callData = NoCallInfo
    /\ handlers = NoHandlers
    /\ cache = EmptyCache
    /\ loadLog = NoLoads

FileNext ==
    \/ ParseFilesIter(FileCalls)
    \/ ParseFilesFail
    \/ ParseFilesReturn
    \/ SaveStats
    \/ PatternsGetCall
    \/ GetCallData

FileSpec == FileInit /\ [][FileNext]_vars



(***************************************************************************)
(* Properties.                                                             *)
(***************************************************************************)
\* The buckets of the store being filled, in discovery order.
Buckets == IF tool = "profile" THEN patterns.AllPatterns ELSE globalPatterns

Bucket(k) == heap[Buckets[k]]

RECURSIVE SumOfCounts(_)
SumOfCounts(k) == IF k = 0 THEN 0 ELSE Bucket(k).Count + SumOfCounts(k - 1)

RECURSIVE Occurrences(_, _)
Occurrences(c, k) ==
    IF k = 0 THEN 0
    ELSE Cardinality({ j \in 1..Len(Bucket(k).Calls) : Bucket(k).Calls[j] = c })
         + Occurrences(c, k - 1)

Views == {"OneToN", "NToN", "NToOne"}

Refs(view, ptr) == Cardinality({ k \in 1..Len(patterns[view]) : patterns[view][k] = ptr })

InView(view, ptr) == Refs(view, ptr) > 0

\* C1: no two distinct buckets of a store have equal Send signatures and
\* equal Recv signatures.
C1_NoDuplicateBuckets ==
    \A a, b \in 1..Len(Buckets) :
       a # b => ~(Bucket(a).Send = Bucket(b).Send /\ Bucket(a).Recv = Bucket(b).Recv)

C1_Witness ==
    /\ Len(Buckets) = 3
    /\ Bucket(1).Send = Bucket(2).Send
    /\ Bucket(1).Recv # Bucket(2).Recv
    /\ Bucket(2).Recv = Bucket(3).Recv
    /\ Bucket(2).Send # Bucket(3).Send

\* C2: when calls 0..i-1 have been fed, the Counts of the buckets sum up to i
\* and every call index 0..i-1 occurs exactly once in the Calls lists taken
\* together (and no other index occurs); the pass returns with i = numCalls.
C2_CallsPartition ==
    /\ SumOfCounts(Len(Buckets)) = i
    /\ \A c \in 0..(i - 1) : Occurrences(c, Len(Buckets)) = 1
    /\ \A k \in 1..Len(Buckets) :
          \A j \in 1..Len(Bucket(k).Calls) : Bucket(k).Calls[j] \in 0..(i - 1)
    /\ pc = "parsed" => i = numCalls

C2_Witness ==
    /\ pc = "parsed"
    /\ tool = "profile"
    /\ numCalls = 3
    /\ Len(Buckets) = 2
    /\ Bucket(1).Calls = <<0, 2>>
    /\ Bucket(2).Calls = <<1>>

\* C3: an addPattern call (callNum = i) whose signatures equal those of some
\* bucket adds 1 to the Count of the first such bucket and appends callNum to
\* its Calls, creating no bucket and changing no other bucket; otherwise it
\* appends one new bucket with Count 1 and Calls = <<callNum>> at the end of
\* the store and changes no existing bucket.
C3_Effect ==
    LET send == fed'[Len(fed')][1]
        recv == fed'[Len(fed')][2]
        eq == { k \in 1..Len(Buckets) : Bucket(k).Send = send /\ Bucket(k).Recv = recv }
    IN  IF eq # {}
        THEN LET f == CHOOSE k \in eq : \A j \in eq : k <= j
             IN  /\ Buckets' = Buckets
                 /\ heap'[Buckets[f]] = [ Bucket(f) EXCEPT !.Count = @ + 1,
                                                           !.Calls = Append(@, i) ]
                 /\ \A k \in 1..Len(Buckets) : k # f => heap'[Buckets[k]] = Bucket(k)
        ELSE /\ Len(Buckets') = Len(Buckets) + 1
             /\ SubSeq(Buckets', 1, Len(Buckets)) = Buckets
             /\ Buckets'[Len(Buckets')] > Len(heap)
             /\ heap'[Buckets'[Len(Buckets')]] =
                   [ Send |-> send, Recv |-> recv, Count |-> 1, Calls |-> <<i>> ]
             /\ \A k \in 1..Len(Buckets) : heap'[Buckets[k]] = Bucket(k)

C3_AddOrMerge == [][ (i' = i + 1) => C3_Effect ]_vars

C3_Witness ==
    /\ Len(Buckets) = 2
    /\ Bucket(1).Calls = <<0, 2>>
    /\ Bucket(1).Count = 2
    /\ Bucket(2).Calls = <<1>>
    /\ Bucket(2).Count = 1

\* C4: the Count of every bucket equals the length of its Calls and the
\* number of addPattern calls made so far with the bucket's (send, recv)
\* pair; the same pair fed N >= 1 times to an empty store gives exactly one
\* bucket, with Count = N and N call indices.
C4_CountIsNumberOfCalls ==
    /\ \A k \in 1..Len(Buckets) :
          /\ Bucket(k).Count = Len(Bucket(k).Calls)
          /\ Bucket(k).Count =
                Cardinality({ j \in 1..Len(fed) :
                                fed[j] = <<Bucket(k).Send, Bucket(k).Recv>> })
    /\ (Len(fed) >= 1 /\ \A j \in 1..Len(fed) : fed[j] = fed[1]) =>
          /\ Len(Buckets) = 1
          /\ Bucket(1).Count = Len(fed)
          /\ Len(Bucket(1).Calls) = Len(fed)

C4_Witness ==
    /\ Len(fed) = 3
    /\ \A j \in 1..Len(fed) : fed[j] = fed[1]
    /\ Len(Buckets) = 1
    /\ Bucket(1).Count = 3

C6_OneToNIffStrictlyGreater ==
    tool = "profile" =>
       \A k \in 1..Len(patterns.AllPatterns) :
          InView("OneToN", patterns.AllPatterns[k]) <=>
             \E peerCount \in DOMAIN Bucket(k).Send :
                peerCount > Bucket(k).Send[peerCount] * 100

C6_Witness ==
    /\ tool = "profile"
    /\ \E a, b \in 1..Len(patterns.AllPatterns) :
          /\ Bucket(a).Send = (101 :> 1)
          /\ InView("OneToN", patterns.AllPatterns[a])
          /\ Bucket(b).Send = (100 :> 1)
          /\ ~InView("OneToN", patterns.AllPatterns[b])

\* C7: a bucket is referenced by NToN iff its send signature has an entry
\* (peerCount, numRanks) with peerCount = numRanks.
C7_NToNIffEqual ==
    tool = "profile" =>
       \A k \in 1..Len(patterns.AllPatterns) :
          InView("NToN", patterns.AllPatterns[k]) <=>
             \E peerCount \in DOMAIN Bucket(k).Send :
                peerCount = Bucket(k).Send[peerCount]

C7_Witness ==
    /\ tool = "profile"
    /\ \E a, b \in 1..Len(patterns.AllPatterns) :
          /\ Bucket(a).Send = (4 :> 4)
          /\ InView("NToN", patterns.AllPatterns[a])
          /\ Bucket(b).Send = (4 :> 5)
          /\ ~InView("NToN", patterns.AllPatterns[b])

\* C8: a bucket is referenced by NToOne iff its send signature has an entry
\* (peerCount, numRanks) with peerCount * 100 < numRanks.
C8_NToOneIffStrictlyLess ==
    tool = "profile" =>
       \A k \in 1..Len(patterns.AllPatterns) :
          InView("NToOne", patterns.AllPatterns[k]) <=>
             \E peerCount \in DOMAIN Bucket(k).Send :
                peerCount * 100 < Bucket(k).Send[peerCount]

C8_Witness ==
    /\ tool = "profile"
    /\ \E a, b \in 1..Len(patterns.AllPatterns) :
          /\ Bucket(a).Send = (1 :> 101)
          /\ InView("NToOne", patterns.AllPatterns[a])
          /\ Bucket(b).Send = (1 :> 100)
          /\ ~InView("NToOne", patterns.AllPatterns[b])

\* C9 as claimed: every bucket is referenced by at most one of the three
\* topology views.
C9_AtMostOneView ==
    tool = "profile" =>
       \A k \in 1..Len(patterns.AllPatterns) :
          Cardinality({ v \in Views : InView(v, patterns.AllPatterns[k]) }) <= 1

\* C9 as amended: the three views together reference a bucket at most once
\* for each entry of its send signature, so that a bucket whose send
\* signature has one entry is referenced by at most one view (and at most
\* once); a bucket with several entries may be referenced by several views.
C9_AtMostOneViewPerEntry ==
    tool = "profile" =>
       \A k \in 1..Len(patterns.AllPatterns) :
          LET ptr == patterns.AllPatterns[k]
              total == Refs("OneToN", ptr) + Refs("NToN", ptr) + Refs("NToOne", ptr)
          IN  /\ total <= MapLen(Bucket(k).Send)
              /\ MapLen(Bucket(k).Send) <= 1 =>
                    Cardinality({ v \in Views : InView(v, ptr) }) <= 1

C9_Witness ==
    /\ tool = "profile"
    /\ \E k \in 1..Len(patterns.AllPatterns) :
          /\ Bucket(k).Send = (101 :> 1) @@ (4 :> 4)
          /\ Bucket(k).Count = 2
          /\ Refs("OneToN", patterns.AllPatterns[k]) = 1
          /\ Refs("NToN", patterns.AllPatterns[k]) = 1
          /\ Refs("NToOne", patterns.AllPatterns[k]) = 0
    /\ \E k \in 1..Len(patterns.AllPatterns) :
          /\ MapLen(Bucket(k).Send) = 1
          /\ Refs("OneToN", patterns.AllPatterns[k]) = 1

\* C10: when AnalyzeSubCommsResults is given two or more groups and some
\* group's number of AllPatterns, NToOne, NToN or OneToN entries differs from
\* that of the reference group (the first group visited), it returns nil and
\* neither creates nor writes the consolidated report.
C10_CountsDiffer(ref, p) ==
    \/ Len(ref.AllPatterns) # Len(p.AllPatterns)
    \/ Len(ref.NToOne) # Len(p.NToOne)
    \/ Len(ref.NToN) # Len(p.NToN)
    \/ Len(ref.OneToN) # Len(p.OneToN)

C10_HeterogeneousNoReport ==
    ( /\ pc = "done"
      /\ Len(visit) >= 2
      /\ \E k \in 2..Len(visit) :
            C10_CountsDiffer(allPatterns[visit[1]], allPatterns[visit[k]]) )
    => (ret = "nil" /\ fd = "unopened" /\ report = NoFile)

C10_Witness ==
    /\ pc = "done"
    /\ Len(visit) = 2
    /\ Len(allPatterns[visit[1]].AllPatterns) = Len(allPatterns[visit[2]].AllPatterns)
    /\ Len(allPatterns[visit[1]].AllPatterns) > 0
    /\ Len(allPatterns[visit[1]].NToN) # Len(allPatterns[visit[2]].NToN)
    /\ ret = "nil"
    /\ fd = "unopened"
    /\ report = NoFile

\* The (Send, Recv) pairs of the buckets of a group's Data.
SignaturePairs(d) ==
    { <<heap[d.AllPatterns[k]].Send, heap[d.AllPatterns[k]].Recv>> :
         k \in 1..Len(d.AllPatterns) }

\* The loop of AnalyzeSubCommsResults ran to its end: os.OpenFile was
\* called (fd is no longer "unopened" when it succeeded).
ReportStarted == pc = "done" /\ fd = "closed"

\* The consolidated report holds everything the function writes: it starts
\* with the header and ends with the bins of the last rank of the counts
\* analysis.
ReportComplete ==
    /\ report # NoFile
    /\ Len(report) >= 4
    /\ report[1] = Header
    /\ \E k \in 2..Len(report) : report[k] = <<"# Counts analysis">>
    /\ report[Len(report) - 1]
          = <<"-> Sub-communicator led by rank",
              CHOOSE r \in DOMAIN allStats : \A q \in DOMAIN allStats : q <= r>>
    /\ report[Len(report)][1] = "messages larger or equal"

\* C11: Same(ref, target) is true only if every (peerCount, numRanks) entry
\* of the Send signature of every bucket of ref is an entry, with that
\* peerCount and that numRanks, of the Send signature of some bucket of
\* target, and likewise for Recv; when an entry is missing the aggregator
\* produces no report.
C11_HasEntry(d, dir, numPeers, numRanks) ==
    \E k \in 1..Len(d.AllPatterns) :
       /\ numPeers \in DOMAIN heap[d.AllPatterns[k]][dir]
       /\ heap[d.AllPatterns[k]][dir][numPeers] = numRanks

C11_Covers(ref, target) ==
    \A dir \in {"Send", "Recv"} :
       \A k \in 1..Len(ref.AllPatterns) :
          \A numPeers \in DOMAIN heap[ref.AllPatterns[k]][dir] :
             C11_HasEntry(target, dir, numPeers,
                          heap[ref.AllPatterns[k]][dir][numPeers])

C11_SameOnlyIfEveryEntryFound ==
    /\ \A r1, r2 \in DOMAIN allPatterns :
          Same(allPatterns[r1], allPatterns[r2], heap)
             => C11_Covers(allPatterns[r1], allPatterns[r2])
    /\ ReportStarted =>
          \A k \in 2..Len(visit) :
             C11_Covers(allPatterns[visit[1]], allPatterns[visit[k]])

\* C12: whenever AnalyzeSubCommsResults produces the consolidated report,
\* the set of (send, recv) signature pairs of the buckets of every group
\* equals that of the reference group.
C12_ReportImpliesEqualPairSets ==
    (pc = "done" /\ ret = "nil" /\ report # NoFile) =>
       \A k \in 2..Len(visit) :
          SignaturePairs(allPatterns[visit[k]])
             = SignaturePairs(allPatterns[visit[1]])

\* C13: when all the groups have the same buckets (hence the same views),
\* AnalyzeSubCommsResults does not take the silent no-report return: it
\* opens the report file and, unless opening or a write fails, returns nil
\* with the complete report; and Same(p, p) is true for every group p.
C13_IdenticalGroupsReported ==
    /\ \A r \in DOMAIN allPatterns : Same(allPatterns[r], allPatterns[r], heap)
    /\ ( /\ pc = "done"
         /\ Len(visit) >= 1
         /\ \A r1, r2 \in DOMAIN allPatterns :
               SignaturePairs(allPatterns[r1]) = SignaturePairs(allPatterns[r2]) )
       => /\ ret \in {"nil", "error"}
          /\ ret = "nil" => (fd = "closed" /\ ReportComplete)

C13_Witness ==
    /\ pc = "done"
    /\ Len(visit) = 2
    /\ SignaturePairs(allPatterns[0]) = SignaturePairs(allPatterns[1])
    /\ Cardinality(SignaturePairs(allPatterns[0])) = 2
    /\ <<(4 :> 4) @@ (1 :> 1), (4 :> 4)>> \in SignaturePairs(allPatterns[0])
    /\ allPatterns[0].AllPatterns # allPatterns[1].AllPatterns
    /\ ret = "nil"
    /\ ReportComplete

\* C14 as claimed: on every path on which AnalyzeSubCommsResults returns,
\* either the complete report exists or nothing was written to the report
\* file.
C14_NeverPartial ==
    (pc = "done" /\ ret \in {"nil", "error"}) =>
       (report = NoFile \/ report = <<>> \/ ReportComplete)

\* C14, amended: AnalyzeSubCommsResults never reports success over a partial
\* report: when it returns nil, either the complete report exists or the
\* report file was neither created nor written; a return with an error may
\* leave the strings written before the failing write.
C14_NilMeansCompleteOrNothing ==
    (pc = "done" /\ ret = "nil") =>
       \/ (report = NoFile /\ fd = "unopened")
       \/ (fd = "closed" /\ ReportComplete)

C14_Witness ==
    /\ pc = "done"
    /\ ret = "error"
    /\ fd = "closed"
    /\ Len(report) >= 2
    /\ report[1] = Header
    /\ ~ReportComplete

\* The patterns file of the rank was written to its end by SaveStats.
PatternsFileSaved == pc \in {"saved", "got"} /\ patternsFile # NoFile

\* The positions of the lines of call indices in the patterns file.
CallsLines ==
    { p \in 1..Len(patternsFile) : patternsFile[p][1] = "Alltoallv calls: " }

\* C15: for a patterns file written by SaveStats / WriteToFile and a call
\* index c that is in the Calls of some bucket, GetCall(c) returns no error
\* and the send / recv distribution lines of exactly that bucket.
C15_GetCallReturnsBucketLines ==
    (pc = "got" /\ PatternsFileSaved) =>
       \A k \in 1..Len(Buckets) :
          (\E j \in 1..Len(Bucket(k).Calls) : Bucket(k).Calls[j] = getCall.callNum)
             => /\ getCall.err = "nil"
                /\ \E asc \in BOOLEAN :
                      getCall.patterns = writeDataToFile(Bucket(k), asc)

\* C16: the line of call indices that WriteToFile emits for a bucket is the
\* run-length encoding of its Calls, and decoding it as GetPatternHeader
\* does (prefix and newline trimmed, then expanded) gives back exactly the
\* Calls of the bucket.  GetPatternHeader is applied to the pattern line and
\* the line of call indices of the block.
C16_CallListRoundTrip ==
    PatternsFileSaved =>
       /\ Cardinality(CallsLines) = Len(Buckets)
       /\ \A p \in CallsLines :
             /\ p >= 3
             /\ patternsFile[p - 2][1] = "## Pattern #"
             /\ patternsFile[p][2]
                   = CompressIntArray(Bucket(patternsFile[p - 2][2] + 1).Calls)
                        \o <<NewLine>>
             /\ GetPatternHeader(<<patternsFile[p - 2], patternsFile[p]>>, 1)
                   = [ callIDs |-> Bucket(patternsFile[p - 2][2] + 1).Calls,
                       err |-> "nil", pos |-> 3 ]

C16_Witness ==
    /\ PatternsFileSaved
    /\ \E p \in CallsLines :
          /\ patternsFile[p][2]
                = << Numeral(0), Dash, Numeral(2), Comma, Numeral(5), Comma,
                     Numeral(7), Dash, Numeral(9), NewLine >>
          /\ GetPatternHeader(<<patternsFile[p - 2], patternsFile[p]>>, 1).callIDs
                = <<0, 1, 2, 5, 7, 8, 9>>
          /\ Bucket(patternsFile[p - 2][2] + 1).Calls = <<0, 1, 2, 5, 7, 8, 9>>

\* C17: GetCall returns an error, not an empty success, when the call index
\* asked for is in no bucket of the patterns file, and when the patterns
\* file does not exist.
C17_GetCallFailsWhenAbsent ==
    pc = "got" =>
       ( ( \/ patternsFile = NoFile
           \/ \A k \in 1..Len(Buckets) :
                 \A j \in 1..Len(Bucket(k).Calls) :
                    Bucket(k).Calls[j] # getCall.callNum )
         => getCall.err # "nil" )

C17_Witness ==
    /\ pc = "got"
    /\ patternsFile # NoFile
    /\ Len(Buckets) = 2
    /\ getCall.callNum = numCalls
    /\ getCall.err # "nil"
    /\ getCall.patterns = <<>>

\* The call fed last went into a bucket that existed before it.
LastCallMerged ==
    \E c \in 1..(Len(fed) - 1) : fed[c] = fed[Len(fed)]

\* C18: the topology rules are applied to a bucket once, when it is created:
\* an addPattern call that merges into an existing bucket leaves OneToN,
\* NToN, NToOne and AllPatterns (number and order of the buckets) unchanged,
\* and a call that creates a bucket only appends references to the new
\* bucket.
C18_Effect ==
    IF \E c \in 1..Len(fed) : fed[c] = fed'[Len(fed')]
    THEN /\ patterns'.AllPatterns = patterns.AllPatterns
         /\ \A v \in Views : patterns'[v] = patterns[v]
    ELSE /\ patterns'.AllPatterns = Append(patterns.AllPatterns, Len(heap) + 1)
         /\ \A v \in Views :
               /\ Len(patterns'[v]) >= Len(patterns[v])
               /\ SubSeq(patterns'[v], 1, Len(patterns[v])) = patterns[v]
               /\ \A k \in (Len(patterns[v]) + 1)..Len(patterns'[v]) :
                     patterns'[v][k] = Len(heap) + 1

C18_ClassifiedOnceAtCreation ==
    [][ (tool = "profile" /\ i' = i + 1) => C18_Effect ]_vars

C18_Witness ==
    /\ tool = "profile"
    /\ Len(fed) = 3
    /\ LastCallMerged
    /\ fed[3] = fed[1]
    /\ fed[2] # fed[1]
    /\ Len(patterns.AllPatterns) = 2
    /\ Len(patterns.OneToN) = 1
    /\ patterns.OneToN[1] = patterns.AllPatterns[1]
    /\ heap[patterns.OneToN[1]].Count = 2

\* C19: every element of OneToN, NToN and NToOne is one of the buckets of
\* AllPatterns of the same Data (the same object), so that the merges made
\* after the bucket was created are seen through the view: the Count read
\* through the view is the number of calls fed with the bucket's pair.
C19_ViewsAliasBuckets ==
    tool = "profile" =>
       \A v \in Views :
          \A k \in 1..Len(patterns[v]) :
             /\ \E j \in 1..Len(patterns.AllPatterns) :
                   patterns.AllPatterns[j] = patterns[v][k]
             /\ heap[patterns[v][k]].Count
                   = Cardinality({ c \in 1..Len(fed) :
                                     fed[c] = <<heap[patterns[v][k]].Send,
                                                heap[patterns[v][k]].Recv>> })

C19_Witness ==
    /\ tool = "profile"
    /\ Len(patterns.AllPatterns) = 2
    /\ Len(patterns.NToOne) = 1
    /\ patterns.NToOne[1] = patterns.AllPatterns[2]
    /\ heap[patterns.NToOne[1]].Count = 2
    /\ heap[patterns.NToOne[1]].Calls = <<1, 2>>

\* The calls fed so far (numbered from 1) whose send and receive signatures
\* are both empty.
NoDataCalls ==
    { c \in 1..Len(fed) : fed[c][1] = EmptyMap /\ fed[c][2] = EmptyMap }

\* C20: during a classification pass a call is recorded in Empty if and only
\* if its send signature and its receive signature are both empty, and it
\* is recorded once: Empty holds, in call order, one entry of Count 1 for
\* each such call, so len(Empty) is the number of calls without data.
C20_EmptyIffNoData ==
    tool = "profile" =>
       /\ Len(patterns.Empty) = Cardinality(NoDataCalls)
       /\ \A k \in 1..Len(patterns.Empty) :
             /\ heap[patterns.Empty[k]].Count = 1
             /\ Len(heap[patterns.Empty[k]].Calls) = 1
             /\ heap[patterns.Empty[k]].Calls[1] + 1 \in NoDataCalls
             /\ \A j \in 1..(k - 1) :
                   heap[patterns.Empty[j]].Calls[1] < heap[patterns.Empty[k]].Calls[1]

C20_Witness ==
    /\ tool = "profile"
    /\ pc = "parsed"
    /\ Len(fed) = 3
    /\ NoDataCalls = {1, 3}
    /\ fed[2][1] = EmptyMap
    /\ fed[2][2] # EmptyMap
    /\ Len(patterns.Empty) = 2
    /\ heap[patterns.Empty[2]].Calls = <<2>>

\* The heap with the Count of bucket ptr replaced by n.
WithCount(ptr, n) == [heap EXCEPT ![ptr].Count = n]

\* The heap with every Count set to 1.
AllCountsOne == [p \in DOMAIN heap |-> [heap[p] EXCEPT !.Count = 1]]

\* C21: the result of Same(ref, target) does not depend on the hit counts:
\* for the groups reached (every bucket has Count >= 1), replacing the
\* Count of any bucket of target by any other positive value leaves the
\* boolean unchanged (the Counts of ref are only logged), and so does
\* setting every Count to 1.
C21_SameIgnoresCounts ==
    /\ (pc = "scan" /\ todo = <<>>) =>
          \A r1, r2 \in DOMAIN allPatterns :
             \A k \in 1..Len(allPatterns[r2].AllPatterns) :
                /\ heap[allPatterns[r2].AllPatterns[k]].Count >= 1
                /\ \A n \in 1..(MaxGroupCalls + 1) :
                      Same(allPatterns[r1], allPatterns[r2],
                           WithCount(allPatterns[r2].AllPatterns[k], n))
                         = Same(allPatterns[r1], allPatterns[r2], heap)
    /\ (pc = "done" /\ Len(visit) = 2) =>
          Same(allPatterns[visit[1]], allPatterns[visit[2]], AllCountsOne)
             = Same(allPatterns[visit[1]], allPatterns[visit[2]], heap)

C21_Witness ==
    /\ pc = "done"
    /\ Len(visit) = 2
    /\ Len(allPatterns[visit[1]].AllPatterns) = 1
    /\ Len(allPatterns[visit[2]].AllPatterns) = 1
    /\ heap[allPatterns[visit[1]].AllPatterns[1]].Count = 2
    /\ heap[allPatterns[visit[2]].AllPatterns[1]].Count = 1
    /\ heap[allPatterns[visit[1]].AllPatterns[1]].Send = (4 :> 4)
    /\ SignaturePairs(allPatterns[visit[1]]) = SignaturePairs(allPatterns[visit[2]])
    /\ Same(allPatterns[visit[1]], allPatterns[visit[2]], heap)
    /\ ret = "nil"
    /\ ReportComplete

\* C25: the outcome of AnalyzeSubCommsResults does not depend on the order
\* in which range visits the groups of allPatterns: whether the loop leaves
\* the function without a report is the same for the order taken and for
\* every other order.
C25_OutcomeIndependentOfVisitOrder ==
    pc = "done" =>
       \A order \in Perms(DOMAIN allPatterns) :
          LoopReturns(order, allPatterns, heap)
             = LoopReturns(visit, allPatterns, heap)

\* C26: AnalyzeSubCommsResults ends by returning nil or an error, never by
\* a runtime fault, also for empty or nil maps.
C26_NeverFaults ==
    pc = "done" => ret \in {"nil", "error"}

\* The lines that open a section of the patterns file or of the summary
\* file.
SectionTitles ==
    {"# Patterns", "# 1 to N patterns", "# N to 1 patterns", "# N to n patterns"}

\* The number of pattern lines between the title of the section that holds
\* line p of file and line p.
PatternsBefore(file, p) ==
    Cardinality({ q \in 1..(p - 1) :
                    /\ file[q][1] = "## Pattern #"
                    /\ \A t \in (q + 1)..(p - 1) : file[t][1] \notin SectionTitles })

\* C27: in every section written by SaveStats (all patterns, 1 to N, N to 1,
\* N to n) the k-th bucket written is headed "## Pattern #k", k counting
\* from 0 in the order of the view, so that the numbers of a section are
\* pairwise distinct.
C27_PatternNumbersCountUp ==
    PatternsFileSaved =>
       /\ \A p \in 1..Len(patternsFile) :
             patternsFile[p][1] = "## Pattern #"
                => patternsFile[p][2] = PatternsBefore(patternsFile, p)
       /\ \A p \in 1..Len(summaryFile) :
             summaryFile[p][1] = "## Pattern #"
                => summaryFile[p][2] = PatternsBefore(summaryFile, p)

\* C28: no bucket is referenced more than once by the same topology view,
\* so that the length of a view is the number of distinct buckets in it.
C28_NoDoubleReference ==
    tool = "profile" =>
       \A v \in Views :
          \A a, b \in 1..Len(patterns[v]) :
             patterns[v][a] = patterns[v][b] => a = b

\* C29: with the calls fed in increasing index order, the Calls list of
\* every bucket is strictly increasing and the buckets are ordered by
\* strictly increasing first call index.
C29_CallsAndBucketsIncreasing ==
    /\ \A k \in 1..Len(Buckets) :
          \A a, b \in 1..Len(Bucket(k).Calls) :
             a < b => Bucket(k).Calls[a] < Bucket(k).Calls[b]
    /\ \A j, k \in 1..Len(Buckets) :
          j < k => Bucket(j).Calls[1] < Bucket(k).Calls[1]

C29_Witness ==
    /\ tool = "srcountsanalyzer"
    /\ Len(Buckets) = 2
    /\ Bucket(1).Calls = <<0, 2>>
    /\ Bucket(2).Calls = <<1>>
    /\ i = 3

\* The titles of the sections of the consolidated report, in the order of
\* the writes of AnalyzeSubCommsResults, and the views of the first three.
ReportTitles ==
    << "## N to n patterns", "## 1 to n patterns", "## N to 1 patterns",
       "## All 0 counts pattern; no data exchanged", "# Counts analysis" >>

TitleViews == <<"NToN", "OneToN", "NToOne">>

TitleAt(t) == { p \in 1..Len(report) : report[p] = <<ReportTitles[t]>> }

IsRankLine(line) ==
    line[1] \in { "-> Subcommunicator led by rank",
                  "-> Sub-communicator led by rank" }

IsTitleLine(line) == \E t \in 1..Len(ReportTitles) : line = <<ReportTitles[t]>>

\* The ranks named by the rank lines of the section opened by title t, in
\* the order of the file.
RECURSIVE RanksFrom(_)
RanksFrom(p) ==
    IF p > Len(report) \/ IsTitleLine(report[p]) THEN <<>>
    ELSE IF IsRankLine(report[p]) THEN <<report[p][2]>> \o RanksFrom(p + 1)
    ELSE RanksFrom(p + 1)

\* C22: the sections of the consolidated report are written in the order
\* N to n, 1 to n, N to 1 (each skipped when its view is empty), then the
\* tally of the calls without data, then the size bins; every section
\* lists the groups in ascending rank order.
C22_SectionsInOrder ==
    (pc = "done" /\ report # NoFile) =>
       /\ \A t \in 1..Len(ReportTitles) : Cardinality(TitleAt(t)) <= 1
       /\ \A a, b \in 1..Len(ReportTitles) :
             a < b => \A p \in TitleAt(a), q \in TitleAt(b) : p < q
       /\ \A t \in 1..Len(TitleViews) :
             /\ TitleAt(t) # {}
                   => \A r \in DOMAIN allPatterns :
                         Len(allPatterns[r][TitleViews[t]]) > 0
             /\ (TitleAt(4) # {}
                   /\ \E r \in DOMAIN allPatterns :
                         Len(allPatterns[r][TitleViews[t]]) > 0)
                   => TitleAt(t) # {}
       /\ \A t \in 1..Len(ReportTitles) :
             \A p \in TitleAt(t) :
                LET rs == RanksFrom(p + 1)
                IN  /\ \A a, b \in 1..Len(rs) : a < b => rs[a] < rs[b]
                    /\ (ReportComplete /\ t # 4)
                          => rs = SortedSeq(DOMAIN allStats)
                    /\ (ReportComplete /\ t = 4)
                          => rs = SortedSeq({ r \in DOMAIN allPatterns :
                                                Len(allPatterns[r].Empty) > 0 })
       /\ ReportComplete => (TitleAt(4) # {} /\ TitleAt(5) # {})

C22_Witness ==
    /\ pc = "done"
    /\ ReportComplete
    /\ DOMAIN allStats = {0, 1}
    /\ \A t \in 1..Len(ReportTitles) : TitleAt(t) # {}
    /\ \E r \in DOMAIN allPatterns : Len(allPatterns[r].Empty) = 0

\* The file descriptors of outputFiles.
OutputFds == {"defaultFd", "patternsFd", "patternsSummaryFd"}

\* C24: every report file opened for writing (the three files of
\* GetCountProfilerFileDesc and the consolidated report) is closed exactly
\* once on every exit path of the operation that opened it, also when a
\* later open or write fails, and the cleanup never faults.
C24_FilesClosedOnce ==
    /\ pc \in {"saved", "exit"} =>
          /\ \A f \in OutputFds : outputFiles[f] \in {"nil", "closed"}
          /\ outputFiles.Cleanup # "faulted"
    /\ pc = "done" => fd \in {"unopened", "closed"}

\* C23: every failure met while reading data back aborts the operation and
\* is returned as a non-nil error: GetCallData never answers a failed step
\* with a successful result.
C23_ReadFailuresReturned ==
    pc = "called" => (callData.fails # "none" => callData.err # "nil")

\* The handlers that are in the loading branch of loadData.
Loading ==
    { h \in Handlers :
         handlers[h].pc \in {"HandleCountsFiles", "assign", "assign rest"} }

\* C30: with the handlers of webui running concurrently, the cache (stats,
\* allPatterns, allCallsData, numCalls) is populated by loadData at most
\* once, no handler reads it while another one is writing it, and two
\* requests are never both in the loading branch.
C30_CacheLoadedOnce ==
    /\ loadLog.stores <= 1
    /\ ~loadLog.readDuringWrite
    /\ Cardinality(Loading) <= 1

=============================================================================
